---- MODULE Spec2Model ----
(***************************************************************************)
(* Model of the quickstart templates of iii-hq/cli-tooling:                *)
(*   - services/data-service/data_service.py: the worker process (module   *)
(*     load, registration, main) and the invocations of transform_handler; *)
(*   - quickstart/src/python_step.py: the invocations of the event step    *)
(*     handler.                                                            *)
(* A Python dict is modelled as the sequence of its <<key, value>> items   *)
(* in insertion order, with pairwise distinct keys.                        *)
(***************************************************************************)
EXTENDS Integers, Sequences, FiniteSets, TLC

\* ------------------------------------------------------------- bounds

\* Concurrent invocations of transform_handler.
MaxInv == 2
\* Largest number of items of a `data` dict.
MaxKeys == 2
\* Concurrent invocations of the step handler.
MaxStepInv == 2

Keys == {"a", "b", "c"}
Vals == {1, 2}
\* JSON kinds other than an object.
NonMappingKinds == {"str", "int", "list", "null"}
\* Values the shared scope may hold under WORKER_VERSION (NoneVal: not set).
NoneVal == "<None>"
StoreVals == {NoneVal, "1.0", "2.0"}
\* Values of the step input's field `extra`.
Extras == {"hello", "", "py", "x"}

\* ------------------------------------------------------ dicts, values

DistinctKeys(d) ==
    \A i, j \in 1..Len(d) : i # j => d[i][1] # d[j][1]

DictsOver(K, V, n) ==
    {d \in UNION {[1..m -> K \X V] : m \in 0..n} : DistinctKeys(d)}

HasKey(d, k) == \E i \in 1..Len(d) : d[i][1] = k

Get(d, k) == d[CHOOSE i \in 1..Len(d) : d[i][1] = k][2]

\* list(d.keys()): the keys in insertion order.
KeysOf_Reversed(d) == [i \in 1..Len(d) |-> d[Len(d) + 1 - i][1]]

KeysOf(d) == [i \in 1..Len(d) |-> d[i][1]]

DictValue(d) == [kind |-> "dict", items |-> d]
Scalar(k) == [kind |-> k, items |-> <<>>]

DataDicts == DictsOver(Keys, Vals, MaxKeys)
DataValues == {DictValue(d) : d \in DataDicts} \cup {Scalar(k) : k \in NonMappingKinds}

Other == <<"other", Scalar("str")>>

\* Payloads with and without `data`, with an unknown field before or after it.
Payloads ==
    {<<>>, <<Other>>}
    \cup {<< <<"data", v>> >> : v \in DataValues}
    \cup {<< <<"data", v>>, Other >> : v \in DataValues}
    \cup {<< Other, <<"data", v>> >> : v \in DataValues}

\* The payloads of the documented scenarios, and a wrong-typed `data`.
ScenarioPayloads ==
    { <<>>,
      << <<"data", DictValue(<<>>)>> >>,
      << <<"data", DictValue(<< <<"a", 1>>, <<"b", 2>> >>)>> >>,
      << <<"data", DictValue(<< <<"b", 2>>, <<"a", 1>> >>)>> >>,
      << <<"data", Scalar("str")>> >> }

\* ------------------------------------------------- TransformInput

MissingError == [type |-> "missing", loc |-> <<"data">>, msg |-> "Field required"]
DictTypeError ==
    [type |-> "dict_type", loc |-> <<"data">>, msg |-> "Input should be a valid dictionary"]

\* TransformInput.model_validate(payload): the field `data` is required and
\* must be a dict; unknown fields are ignored; the validated dict is a copy.
ModelValidate_Optional(payload) ==
    IF ~HasKey(payload, "data")
    THEN [ok |-> TRUE, data |-> <<>>, errors |-> <<>>]
    ELSE IF Get(payload, "data").kind # "dict"
    THEN [ok |-> FALSE, data |-> <<>>, errors |-> <<DictTypeError>>]
    ELSE [ok |-> TRUE, data |-> Get(payload, "data").items, errors |-> <<>>]

ModelValidate(payload) ==
    IF ~HasKey(payload, "data")
    THEN [ok |-> FALSE, data |-> <<>>, errors |-> <<MissingError>>]
    ELSE IF Get(payload, "data").kind # "dict"
    THEN [ok |-> FALSE, data |-> <<>>, errors |-> <<DictTypeError>>]
    ELSE [ok |-> TRUE,
          data |-> [i \in 1..Len(Get(payload, "data").items) |->
                        Get(payload, "data").items[i]],
          errors |-> <<>>]

\* ------------------------------------------------- outputs

\* str() of the value state::get returned, as the f-string formats it.
FormatValue(v) == IF v = NoneVal THEN "None" ELSE v

\* f"worker version {worker_version}"
WorkerVersionText_Bare(wv) == <<FormatValue(wv)>>

WorkerVersionText(wv) == <<"worker version ", FormatValue(wv)>>

FailureOutput(errors) == [error |-> "Invalid payload", details |-> errors]

SuccessOutput_Tagged(data, wv) ==
    [transformed |-> data, keys |-> KeysOf(data),
     source |-> <<"data-service", FormatValue(wv)>>]
    @@ ("worker-version" :> WorkerVersionText(wv))

SuccessOutput(data, wv) ==
    [transformed |-> data, keys |-> KeysOf(data), source |-> "data-service"]
    @@ ("worker-version" :> WorkerVersionText(wv))

\* ------------------------------------------------- state

VARIABLES
    mainPc,         \* position of the data-service process
    registrations,  \* the calls of iii.register_function, in order
    connectCalls,   \* number of calls of iii.connect
    stdout,         \* lines printed by main
    store,          \* the external key/value store, by <<scope, key>>
    inv,            \* the invocations of transform_handler
    step            \* the invocations of python_step.handler

vars == <<mainPc, registrations, connectCalls, stdout, store, inv, step>>

Unset == "<unset>"
NoReply == [status |-> "pending", value |-> NoneVal]
Ev(op, what) == [op |-> op, what |-> what]

\* A call of "data-service::transform" a caller has sent, not yet dispatched.
PendingInvocation(p) ==
    [pc |-> "idle", payload |-> p, validated |-> <<>>, calls |-> <<>>,
     reply |-> NoReply, worker_version |-> Unset, result |-> <<>>, trace |-> <<>>]

\* A step invocation the runtime has not started.
IdleStep == [pc |-> "idle", input |-> [extra |-> ""], trace |-> <<>>]

VersionKey == <<"shared", "WORKER_VERSION">>

\* The state once the module's top level has run up to line 15 (III built).
InitWith(ids, pool) ==
    /\ mainPc = "loaded"
    /\ registrations = <<>>
    /\ connectCalls = 0
    /\ stdout = <<>>
    /\ store \in [{VersionKey} -> StoreVals]
    /\ inv \in [ids -> {PendingInvocation(p) : p \in pool}]
    /\ step = [i \in 1..MaxStepInv |-> IdleStep]

\* Concurrent invocations on the payloads of the scenarios.
Init == InitWith(1..MaxInv, ScenarioPayloads)

\* One invocation on every payload within the bounds.
InitWide == InitWith({1}, Payloads)

\* ------------------------------------------------- data-service process

FunctionName == "data-service::transform"

\* line 39: iii.register_function("data-service::transform", transform_handler)
Register ==
    /\ mainPc = "loaded"
    /\ registrations' = Append(registrations,
                               [name |-> FunctionName, handler |-> "transform_handler"])
    /\ mainPc' = "registered"
    /\ UNCHANGED <<connectCalls, stdout, store, inv, step>>

\* lines 46-47, 42: asyncio.run(main()) runs main up to `await iii.connect()`.
RunMain ==
    /\ mainPc = "registered"
    /\ connectCalls' = connectCalls + 1
    /\ mainPc' = "connecting"
    /\ UNCHANGED <<registrations, stdout, store, inv, step>>

\* line 42: the awaited connect returns, or raises and ends the process.
Connect ==
    /\ mainPc = "connecting"
    /\ \/ mainPc' = "connected"
       \/ mainPc' = "crashed"
    /\ UNCHANGED <<registrations, connectCalls, stdout, store, inv, step>>

\* lines 43-44: print, then `await asyncio.Future()`, which never completes.
PrintStarted_Return ==
    /\ mainPc = "connected"
    /\ stdout' = Append(stdout, "Data service started - listening for calls")
    /\ mainPc' = "returned"
    /\ UNCHANGED <<registrations, connectCalls, store, inv, step>>

PrintStarted ==
    /\ mainPc = "connected"
    /\ stdout' = Append(stdout, "Data service started - listening for calls")
    /\ mainPc' = "waiting"
    /\ UNCHANGED <<registrations, connectCalls, store, inv, step>>

Connected == mainPc \in {"connected", "waiting"}

\* ------------------------------------------------- transform_handler

Update(i, r) ==
    /\ inv' = [inv EXCEPT ![i] = r]
    /\ UNCHANGED <<mainPc, registrations, connectCalls, stdout, store, step>>

GetRequest == [fn |-> "state::get", scope |-> "shared", key |-> "WORKER_VERSION"]

\* The runtime dispatches a call to the handler registered under its name.
Invoke(i) ==
    /\ Connected
    /\ \E n \in 1..Len(registrations) :
          /\ registrations[n].name = FunctionName
          /\ registrations[n].handler = "transform_handler"
    /\ inv[i].pc = "idle"
    /\ Update(i, [inv[i] EXCEPT !.pc = "Validating"])

\* lines 20-27: validate; on a ValidationError log it and return the failure
\* output; otherwise issue state::get and suspend on it.
Validate_FetchFirst(i) ==
    /\ inv[i].pc = "Validating"
    /\ LET r == ModelValidate(inv[i].payload) IN
       \/ /\ ~r.ok
          /\ Update(i, [inv[i] EXCEPT
                 !.pc = "Rejected",
                 !.calls = Append(@, GetRequest),
                 !.trace = @ \o <<Ev("call", "state::get"), Ev("validate", "fail"),
                                  Ev("log.error", "Validation error")>>,
                 !.result = FailureOutput(r.errors)])
       \/ /\ r.ok
          /\ Update(i, [inv[i] EXCEPT
                 !.pc = "Fetching",
                 !.validated = r.data,
                 !.calls = Append(@, GetRequest),
                 !.trace = @ \o <<Ev("call", "state::get"), Ev("validate", "ok")>>])

Validate_Retry(i) ==
    /\ inv[i].pc = "Validating"
    /\ LET r == ModelValidate(inv[i].payload) IN
       \/ /\ ~r.ok
          /\ Len(inv[i].trace) < 4
          /\ Update(i, [inv[i] EXCEPT
                 !.trace = @ \o <<Ev("validate", "fail"),
                                  Ev("log.error", "Validation error")>>])
       \/ /\ ~r.ok
          /\ Len(inv[i].trace) >= 4
          /\ Update(i, [inv[i] EXCEPT
                 !.pc = "Rejected",
                 !.trace = @ \o <<Ev("validate", "fail"),
                                  Ev("log.error", "Validation error")>>,
                 !.result = FailureOutput(r.errors)])
       \/ /\ r.ok
          /\ Update(i, [inv[i] EXCEPT
                 !.pc = "Fetching",
                 !.validated = r.data,
                 !.calls = Append(@, GetRequest),
                 !.trace = @ \o <<Ev("validate", "ok"), Ev("call", "state::get")>>])

Validate(i) ==
    /\ inv[i].pc = "Validating"
    /\ LET r == ModelValidate(inv[i].payload) IN
       \/ /\ ~r.ok
          /\ Update(i, [inv[i] EXCEPT
                 !.pc = "Rejected",
                 !.trace = @ \o <<Ev("validate", "fail"),
                                  Ev("log.error", "Validation error")>>,
                 !.result = FailureOutput(r.errors)])
       \/ /\ r.ok
          /\ Update(i, [inv[i] EXCEPT
                 !.pc = "Fetching",
                 !.validated = r.data,
                 !.calls = Append(@, GetRequest),
                 !.trace = @ \o <<Ev("validate", "ok"), Ev("call", "state::get")>>])

\* The store serves the state::get of line 27 with the value it holds then.
StoreReply(i) ==
    /\ inv[i].pc = "Fetching"
    /\ inv[i].reply.status = "pending"
    /\ LET q == inv[i].calls[Len(inv[i].calls)] IN
       Update(i, [inv[i] EXCEPT
           !.reply = [status |-> "ok", value |-> store[<<q.scope, q.key>>]]])

\* The state::get of line 27 fails (the store or the bridge reports an error).
StoreError(i) ==
    /\ inv[i].pc = "Fetching"
    /\ inv[i].reply.status = "pending"
    /\ Update(i, [inv[i] EXCEPT !.reply = [status |-> "error", value |-> NoneVal]])

\* lines 27-30: the await of iii.call ends: it raises, and nothing catches
\* it; or it returns, the handler logs and suspends on the sleep.
ResumeFetch_Default(i) ==
    /\ inv[i].pc = "Fetching"
    /\ inv[i].reply.status # "pending"
    /\ Update(i, [inv[i] EXCEPT
           !.pc = "Sleeping",
           !.worker_version = inv[i].reply.value,
           !.trace = @ \o <<Ev("log.info", "Processing data with data-service..."),
                            Ev("sleep", "0.5")>>])

ResumeFetch(i) ==
    /\ inv[i].pc = "Fetching"
    /\ \/ /\ inv[i].reply.status = "error"
          /\ Update(i, [inv[i] EXCEPT !.pc = "Faulted"])
       \/ /\ inv[i].reply.status = "ok"
          /\ Update(i, [inv[i] EXCEPT
                 !.pc = "Sleeping",
                 !.worker_version = inv[i].reply.value,
                 !.trace = @ \o <<Ev("log.info", "Processing data with data-service..."),
                                  Ev("sleep", "0.5")>>])

\* lines 30-37: the sleep ends and the handler returns the success output.
Wake_Shared(i) ==
    /\ inv[i].pc = "Sleeping"
    /\ \E j \in DOMAIN inv :
          /\ inv[j].pc \in {"Fetching", "Sleeping", "Success", "Faulted"}
          /\ Update(i, [inv[i] EXCEPT
                 !.pc = "Success",
                 !.result = SuccessOutput(inv[j].validated, inv[i].worker_version)])

Wake(i) ==
    /\ inv[i].pc = "Sleeping"
    /\ Update(i, [inv[i] EXCEPT
           !.pc = "Success",
           !.result = SuccessOutput(inv[i].validated, inv[i].worker_version)])

\* Another client of the store sets shared/WORKER_VERSION.
StoreSet(v) ==
    /\ store[VersionKey] # v
    /\ store' = [store EXCEPT ![VersionKey] = v]
    /\ UNCHANGED <<mainPc, registrations, connectCalls, stdout, inv, step>>

HandlerStep(i) == Validate(i) \/ ResumeFetch(i) \/ Wake(i)

Next ==
    \/ Register
    \/ RunMain
    \/ Connect
    \/ PrintStarted
    \/ \E i \in DOMAIN inv : Invoke(i)
    \/ \E i \in DOMAIN inv : Validate(i)
    \/ \E i \in DOMAIN inv : StoreReply(i)
    \/ \E i \in DOMAIN inv : StoreError(i)
    \/ \E i \in DOMAIN inv : ResumeFetch(i)
    \/ \E i \in DOMAIN inv : Wake(i)
    \/ \E v \in StoreVals : StoreSet(v)

Spec == Init /\ [][Next]_vars

SpecWide == InitWide /\ [][Next]_vars

\* ------------------------------------------------- python_step.handler

\* python_step.py lines 7-23, the fields the runtime reads.
config ==
    [name |-> "HelloFromPython",
     triggers |-> <<[type |-> "event", topic |-> "hello"]>>,
     emits |-> <<"hello.response.python">>,
     flows |-> <<"hello">>]

StepUpdate(i, r) ==
    /\ step' = [step EXCEPT ![i] = r]
    /\ UNCHANGED <<mainPc, registrations, connectCalls, stdout, store, inv>>

\* The runtime delivers an event of a subscribed topic, its input validated
\* against Input (a text field `extra`).
StepInvoke(i, x) ==
    /\ step[i].pc = "idle"
    /\ StepUpdate(i, [step[i] EXCEPT !.pc = "invoked", !.input = [extra |-> x]])

\* lines 26-27: log, then call ctx.emit and suspend on it.
handler_Echo(i) ==
    /\ step[i].pc = "invoked"
    /\ StepUpdate(i, [step[i] EXCEPT
           !.pc = "emitting",
           !.trace = @ \o <<[op |-> "log.info", topic |-> "",
                             data |-> [extra |-> "Hello from Python!"]],
                            [op |-> "emit", topic |-> "hello.response.python",
                             data |-> [extra |-> step[i].input.extra]]>>])

handler(i) ==
    /\ step[i].pc = "invoked"
    /\ StepUpdate(i, [step[i] EXCEPT
           !.pc = "emitting",
           !.trace = @ \o <<[op |-> "log.info", topic |-> "",
                             data |-> [extra |-> "Hello from Python!"]],
                            [op |-> "emit", topic |-> "hello.response.python",
                             data |-> [extra |-> "py"]]>>])

\* line 27: the awaited emit completes and the handler returns None.
EmitDone(i) ==
    /\ step[i].pc = "emitting"
    /\ StepUpdate(i, [step[i] EXCEPT !.pc = "done"])

StepInit ==
    /\ mainPc = "loaded"
    /\ registrations = <<>>
    /\ connectCalls = 0
    /\ stdout = <<>>
    /\ store = [k \in {VersionKey} |-> NoneVal]
    /\ inv = <<>>
    /\ step = [i \in 1..MaxStepInv |-> IdleStep]

StepNext ==
    \/ \E i \in DOMAIN step, x \in Extras : StepInvoke(i, x)
    \/ \E i \in DOMAIN step : handler(i)
    \/ \E i \in DOMAIN step : EmitDone(i)

StepSpec == StepInit /\ [][StepNext]_vars


\* ------------------------------------------------- vocabulary of the claims

\* The payload carries the required field `data` with a mapping value.
Valid(p) == HasKey(p, "data") /\ Get(p, "data").kind = "dict"

DataOf(p) == Get(p, "data").items

Count(tr, op) == Cardinality({n \in 1..Len(tr) : tr[n].op = op})

Before(tr, op1, op2) ==
    \A m, n \in 1..Len(tr) : tr[m].op = op1 /\ tr[n].op = op2 => m < n

\* The invocation was started and no step of it, or of the store for it, remains.
Ended(i) ==
    /\ inv[i].pc # "idle"
    /\ ~ENABLED (HandlerStep(i) \/ StoreReply(i) \/ StoreError(i))

SuccessKeys == {"transformed", "keys", "source"}

\* The three documented fields of a success output, for the payload p.
SuccessFieldsFor(r, p) ==
    /\ SuccessKeys \subseteq DOMAIN r
    /\ "error" \notin DOMAIN r
    /\ r["transformed"] = DataOf(p)
    /\ Len(r["keys"]) = Len(DataOf(p))
    /\ \A n \in 1..Len(DataOf(p)) : r["keys"][n] = DataOf(p)[n][1]
    /\ r["source"] = "data-service"

PayloadAB == << <<"data", DictValue(<< <<"a", 1>>, <<"b", 2>> >>)>> >>

\* ------------------------------------------------- C1

C2_ExactlyThreeKeys ==
    \A i \in DOMAIN inv :
        inv[i].pc = "Success" /\ inv[i].payload = PayloadAB =>
            /\ DOMAIN inv[i].result = SuccessKeys
            /\ inv[i].result["transformed"] = << <<"a", 1>>, <<"b", 2>> >>
            /\ inv[i].result["keys"] = <<"a", "b">>
            /\ inv[i].result["source"] = "data-service"

\* C2 amended: for that input the returned mapping has exactly four keys: the
\* three above with those values, and "worker-version", the text
\* "worker version " followed by the value state::get returned.
C2_FourKeys ==
    \A i \in DOMAIN inv :
        inv[i].pc = "Success" /\ inv[i].payload = PayloadAB =>
            /\ DOMAIN inv[i].result = SuccessKeys \cup {"worker-version"}
            /\ inv[i].result["transformed"] = << <<"a", 1>>, <<"b", 2>> >>
            /\ inv[i].result["keys"] = <<"a", "b">>
            /\ inv[i].result["source"] = "data-service"
            /\ inv[i].result["worker-version"] =
                   <<"worker version ",
                     IF inv[i].reply.value = NoneVal THEN "None" ELSE inv[i].reply.value>>

C2_Witness ==
    \E i \in DOMAIN inv :
        /\ inv[i].pc = "Success"
        /\ inv[i].payload = PayloadAB
        /\ inv[i].reply.value = "1.0"

\* ------------------------------------------------- C3

\* C3: for every payload without `data`, or with a `data` that is no mapping,
\* the handler does not go past validation and raises nothing; what it
\* returns has "error" = "Invalid payload" and "details" a non-empty list of
\* descriptors that each name the field `data`; a missing `data` yields a
\* descriptor of the missing field.
C3_InvalidPayloadRejected ==
    \A i \in DOMAIN inv :
        ~Valid(inv[i].payload) =>
            /\ inv[i].pc \in {"idle", "Validating", "Rejected"}
            /\ Ended(i) => inv[i].pc = "Rejected"
            /\ inv[i].pc = "Rejected" =>
                  /\ DOMAIN inv[i].result = {"error", "details"}
                  /\ inv[i].result["error"] = "Invalid payload"
                  /\ Len(inv[i].result["details"]) >= 1
                  /\ \A n \in 1..Len(inv[i].result["details"]) :
                         inv[i].result["details"][n].loc = <<"data">>
                  /\ ~HasKey(inv[i].payload, "data") =>
                         \E n \in 1..Len(inv[i].result["details"]) :
                             inv[i].result["details"][n].type = "missing"

C3_Witness ==
    \E i \in DOMAIN inv :
        /\ inv[i].pc = "Rejected"
        /\ inv[i].payload = <<>>
        /\ Len(inv[i].result["details"]) = 1

\* ------------------------------------------------- C4

ValidationFailed(i) ==
    \E n \in 1..Len(inv[i].trace) : inv[i].trace[n] = Ev("validate", "fail")

\* C4: once the validation of an invocation has failed, the invocation has
\* returned the failure output, and it has issued no state::get, started no
\* sleep, written no 'Processing data' line and built no success output.
C4_RejectImmediately ==
    \A i \in DOMAIN inv :
        ValidationFailed(i) =>
            /\ inv[i].pc = "Rejected"
            /\ "error" \in DOMAIN inv[i].result
            /\ inv[i].calls = <<>>
            /\ inv[i].reply = NoReply
            /\ Count(inv[i].trace, "call") = 0
            /\ Count(inv[i].trace, "sleep") = 0
            /\ Count(inv[i].trace, "log.info") = 0
            /\ SuccessKeys \cap DOMAIN inv[i].result = {}

C4_Witness ==
    \E i \in DOMAIN inv :
        /\ inv[i].pc = "Rejected"
        /\ ValidationFailed(i)
        /\ HasKey(inv[i].payload, "data")

\* ------------------------------------------------- C5

SamePayloadSuccess(i, j) ==
    /\ i # j
    /\ inv[i].pc = "Success"
    /\ inv[j].pc = "Success"
    /\ inv[i].payload = inv[j].payload

TheEmit == [op |-> "emit", topic |-> "hello.response.python", data |-> [extra |-> "py"]]

\* C6: an invocation of the step handler emits exactly one event, on topic
\* "hello.response.python" with data {"extra": "py"} whatever its input; the
\* topic is declared in config["emits"]; the info line is logged before the
\* emit; before the handler runs nothing is emitted.
C6_EmitsOnePyEvent ==
    \A i \in DOMAIN step :
        /\ step[i].pc \in {"idle", "invoked"} => step[i].trace = <<>>
        /\ step[i].pc \in {"emitting", "done"} =>
              /\ Count(step[i].trace, "emit") = 1
              /\ Count(step[i].trace, "log.info") = 1
              /\ Before(step[i].trace, "log.info", "emit")
              /\ \A n \in 1..Len(step[i].trace) :
                     step[i].trace[n].op = "emit" =>
                        /\ step[i].trace[n] = TheEmit
                        /\ \E m \in 1..Len(config.emits) :
                               config.emits[m] = step[i].trace[n].topic

C6_Witness ==
    \E i \in DOMAIN step :
        /\ step[i].pc = "done"
        /\ step[i].input = [extra |-> "hello"]
        /\ Count(step[i].trace, "emit") = 1

\* ------------------------------------------------- C7

TerminalPcs == {"Success", "Rejected", "Faulted"}

\* C7 as stated: an invocation that has ended has ended in Success or in
\* Rejected: there is no third terminal outcome.
C7_TwoOutcomes ==
    \A i \in DOMAIN inv : Ended(i) => inv[i].pc \in {"Success", "Rejected"}

C7_OutcomesInv ==
    \A i \in DOMAIN inv :
        /\ Ended(i) => inv[i].pc \in TerminalPcs
        /\ inv[i].pc \in TerminalPcs => Ended(i)
        /\ inv[i].pc \in {"idle", "Validating"} => Count(inv[i].trace, "validate") = 0
        /\ inv[i].pc \notin {"idle", "Validating"} => Count(inv[i].trace, "validate") = 1

C7_OutcomesStep ==
    \A i \in DOMAIN inv :
        /\ inv[i].pc \in TerminalPcs => inv'[i] = inv[i]
        /\ inv[i].pc # "idle" /\ inv'[i].pc = "Validating" => inv'[i] = inv[i]

\* C7 amended: an invocation starts in Validating, validates its payload
\* exactly once, and ends in exactly one of Success, Rejected or, when the
\* state::get call fails, Faulted (the failure propagates); nothing leaves
\* one of the three, and nothing returns to or repeats Validating.
C7_ThreeOutcomes == []C7_OutcomesInv /\ [][C7_OutcomesStep]_vars

C7_Witness ==
    \E i, j \in DOMAIN inv :
        /\ inv[i].pc = "Faulted"
        /\ Ended(i)
        /\ inv[j].pc = "Success"

\* ------------------------------------------------- C8

\* C8: a failure of state::get is never turned into data: once the handler
\* has resumed from a failed state::get the invocation is Faulted, with no
\* output, no sleep and no 'Processing data' line; and the failure output
\* is returned for validation failures only.
C8_FetchFailurePropagates ==
    \A i \in DOMAIN inv :
        /\ inv[i].reply.status = "error" /\ inv[i].pc # "Fetching"
               => inv[i].pc = "Faulted"
        /\ inv[i].pc = "Faulted" =>
              /\ Valid(inv[i].payload)
              /\ inv[i].reply.status = "error"
              /\ DOMAIN inv[i].result = {}
              /\ inv[i].worker_version = Unset
              /\ Count(inv[i].trace, "sleep") = 0
              /\ Count(inv[i].trace, "log.info") = 0
              /\ Count(inv[i].trace, "log.error") = 0
        /\ "error" \in DOMAIN inv[i].result => ValidationFailed(i)

C8_Witness ==
    \E i \in DOMAIN inv :
        /\ inv[i].pc = "Faulted"
        /\ inv[i].payload = PayloadAB
        /\ inv[i].calls = <<GetRequest>>

\* ------------------------------------------------- C9

C9_SuspensionsInv ==
    \A i \in DOMAIN inv :
        /\ Count(inv[i].trace, "call") <= 1
        /\ Count(inv[i].trace, "sleep") <= 1
        /\ Count(inv[i].trace, "call") = Len(inv[i].calls)
        /\ \A n \in 1..Len(inv[i].calls) : inv[i].calls[n] = GetRequest
        /\ inv[i].pc = "Success" => Len(inv[i].calls) = 1
        /\ Before(inv[i].trace, "validate", "call")
        /\ Before(inv[i].trace, "validate", "sleep")
        /\ Before(inv[i].trace, "call", "sleep")
        /\ Count(inv[i].trace, "call") + Count(inv[i].trace, "sleep") > 0
               => inv[i].trace[1] = Ev("validate", "ok")
        /\ Count(inv[i].trace, "sleep") = 1
               => Count(inv[i].trace, "call") = 1 /\ inv[i].reply.status = "ok"
        /\ inv[i].pc \in {"Fetching", "Sleeping", "Success"}
               => inv[i].validated = DataOf(inv[i].payload)
        /\ inv[i].pc = "Success" => SuccessFieldsFor(inv[i].result, inv[i].payload)

C9_SuspensionsStep ==
    /\ store' # store => inv' = inv
    /\ \A i, j \in DOMAIN inv : i # j /\ inv'[j] # inv[j] => inv'[i] = inv[i]
    /\ \A i \in DOMAIN inv :
          inv[i].pc \in {"Fetching", "Sleeping"} =>
              /\ inv'[i].validated = inv[i].validated
              /\ inv'[i].payload = inv[i].payload

\* C9: an invocation suspends at most twice, once on state::get and once on
\* the sleep, the fetch completed before the sleep starts and both after a
\* successful validation; its only calls are state::get (one per successful
\* invocation) and no step of it writes the store; a step of one invocation
\* changes no other invocation, and a suspended invocation keeps its
\* validated data, from which "transformed", "keys" and "source" are built.
C9_Suspensions == []C9_SuspensionsInv /\ [][C9_SuspensionsStep]_vars

C9_Witness ==
    \E i, j \in DOMAIN inv :
        /\ inv[i].pc = "Success"
        /\ inv[j].pc = "Sleeping"
        /\ inv[i].payload # inv[j].payload
        /\ inv[i].validated # inv[j].validated

\* ------------------------------------------------- C10

TheRegistration == [name |-> "data-service::transform", handler |-> "transform_handler"]

C10_StartupInv ==
    /\ Len(registrations) <= 1
    /\ connectCalls <= 1
    /\ mainPc # "loaded" => registrations = <<TheRegistration>>
    /\ connectCalls = 1 <=> mainPc \notin {"loaded", "registered"}
    /\ mainPc \in {"loaded", "registered", "connecting", "connected", "waiting", "crashed"}
    /\ (\E i \in DOMAIN inv : inv[i].pc # "idle") => Connected

C10_StartupStep ==
    /\ connectCalls' # connectCalls => registrations = <<TheRegistration>>
    /\ Connected => Connected' /\ registrations' = registrations
    /\ mainPc = "waiting" => mainPc' = "waiting"

\* C10: "data-service::transform" is registered exactly once, bound to
\* transform_handler, before iii.connect is called; connect is called
\* exactly once; once connected, main never returns.
C10_Startup == []C10_StartupInv /\ [][C10_StartupStep]_vars

C10_Witness ==
    /\ mainPc = "waiting"
    /\ Len(stdout) = 1
    /\ \E i \in DOMAIN inv : inv[i].pc = "Success"

====
